---- MODULE Spec2Model ----
(***************************************************************************)
(* Model of backend/app/prediction.py (BasilDiseasePredictor) together     *)
(* with backend/app/disease_info.py (get_disease_info).                    *)
(*                                                                         *)
(* State: the artifact directory, the two registries built by load_models  *)
(* (models, label_encoders), and the locals of the predict() call in       *)
(* progress with the position (pc) of that call.  Spec is one caller,      *)
(* LiveSpec adds fairness of the stages, ConcSpec interleaves two calls    *)
(* (the frames of the calls not running wait in suspended), FeatureSpec    *)
(* applies the two feature extractors to small pixel arrays.               *)
(*                                                                         *)
(* Python values are modelled as follows.                                  *)
(*   dict            a function whose DOMAIN is the set of keys            *)
(*   None            the string "None"                                     *)
(*   unbound local   "unbound" (strings), -1 (class indices, confidence),   *)
(*                   << >> (vectors)                                        *)
(*   probabilities   integers in hundredths (0.95 is 95)                    *)
(*   loaded artifact the name of the file it was loaded from               *)
(* A classifier or encoder artifact is opaque to the code: what its        *)
(* predict / predict_proba / inverse_transform return, and whether it has  *)
(* the attributes feature_names_in_ and predict_proba, are inputs chosen   *)
(* with \E at the call that uses them.                                     *)
(***************************************************************************)
EXTENDS Integers, Sequences, FiniteSets, TLC

\* ------------------------------------------------------------------------
\* Bounds and input domains
\* ------------------------------------------------------------------------

\* At most this many artifact files are unloadable (joblib.load raises).
MaxCorrupt == 1

None == "None"
Unbound == "unbound"

Backends == {"random_forest", "svm", "knn"}

\* imread() of this path returns None.
UnreadablePath == "not_an_image.txt"
ImagePaths == {"leaf.jpg", UnreadablePath}

HealthClasses == {0, 1}
DiseaseClasses == {0, 1, 2}

\* What a predict_proba call can return (one entry per class, hundredths).
HealthProbVectors == {<<99, 1>>, <<30, 70>>}
DiseaseProbVectors == {<<100, 0, 0>>, <<20, 30, 50>>}

\* ------------------------------------------------------------------------
\* Python dict helpers
\* ------------------------------------------------------------------------

EmptyDict == [k \in {} |-> None]

\* d[k] = v
DictPut(d, k, v) == [x \in (DOMAIN d) \cup {k} |-> IF x = k THEN v ELSE d[x]]

\* d.get(k, default)
DictGet(d, k, default) == IF k \in DOMAIN d THEN d[k] ELSE default

\* ------------------------------------------------------------------------
\* load_models
\* ------------------------------------------------------------------------

rf_health_path == "healthy_vs_diseased_model.pkl"
rf_disease_path == "disease_classifier_model.pkl"
rf_encoder_path == "disease_label_encoder.pkl"
svm_health_path == "healthy_vs_diseased_svm_model.pkl"
svm_disease_path == "svm_disease_classifier_model.pkl"
knn_health_path == "healthy_vs_diseased_knn_model.pkl"
knn_disease_path == "knn_disease_classifier_model.pkl"
knn_encoder_path == "knn_disease_label_encoder.pkl"

ArtifactPaths ==
    {rf_health_path, rf_disease_path, rf_encoder_path, svm_health_path,
     svm_disease_path, knn_health_path, knn_disease_path, knn_encoder_path}

\* A file is absent, present and loadable, or present and unloadable.
FileStates == {"absent", "ok", "corrupt"}

Directories ==
    {fs \in [ArtifactPaths -> FileStates] :
        Cardinality({p \in ArtifactPaths : fs[p] = "corrupt"}) <= MaxCorrupt}

\* os.path.exists(path)
PathExists(fs, path) == fs[path] # "absent"

\* The registries while load_models runs; raised is set once joblib.load
\* has raised, after which the try body is abandoned.
LoadStart == [models |-> EmptyDict, label_encoders |-> EmptyDict, raised |-> FALSE]

\* if os.path.exists(path): self.models[key] = joblib.load(path)
LoadModel(s, fs, key, path) ==
    IF s.raised \/ ~PathExists(fs, path) THEN s
    ELSE IF fs[path] = "corrupt" THEN [s EXCEPT !.raised = TRUE]
    ELSE [s EXCEPT !.models = DictPut(s.models, key, path)]

\* if os.path.exists(path): self.label_encoders[key] = joblib.load(path)
LoadEncoder(s, fs, key, path) ==
    IF s.raised \/ ~PathExists(fs, path) THEN s
    ELSE IF fs[path] = "corrupt" THEN [s EXCEPT !.raised = TRUE]
    ELSE [s EXCEPT !.label_encoders = DictPut(s.label_encoders, key, path)]

\* Variant of SvmDiseaseStep that loads the classifier and registers no
\* encoder under "svm".
SvmDiseaseStepNoEncoder(s, fs) == LoadModel(s, fs, "svm_disease", svm_disease_path)

\* The SVM disease classifier; when it loads, the random-forest encoder (or
\* None) is registered under "svm".
SvmDiseaseStep(s, fs) ==
    LET t == LoadModel(s, fs, "svm_disease", svm_disease_path)
    IN  IF s.raised \/ t.raised \/ ~PathExists(fs, svm_disease_path) THEN t
        ELSE [t EXCEPT !.label_encoders =
                 DictPut(t.label_encoders, "svm",
                         DictGet(t.label_encoders, "random_forest", None))]

\* The KNN disease classifier, or the random-forest one (or None) in its
\* place when only the KNN health file exists.
KnnDiseaseStep(s, fs) ==
    IF s.raised THEN s
    ELSE IF PathExists(fs, knn_disease_path)
         THEN LoadModel(s, fs, "knn_disease", knn_disease_path)
    ELSE IF PathExists(fs, knn_health_path)
         THEN [s EXCEPT !.models =
                  DictPut(s.models, "knn_disease",
                          DictGet(s.models, "random_forest_disease", None))]
    ELSE s

\* The KNN encoder, or the random-forest one (or None) in its place when a
\* KNN health model is registered.
KnnEncoderStep(s, fs) ==
    IF s.raised THEN s
    ELSE IF PathExists(fs, knn_encoder_path)
         THEN LoadEncoder(s, fs, "knn", knn_encoder_path)
    ELSE IF "knn_health" \in DOMAIN s.models
         THEN [s EXCEPT !.label_encoders =
                  DictPut(s.label_encoders, "knn",
                          DictGet(s.label_encoders, "random_forest", None))]
    ELSE s

\* The whole try body of load_models, in source order; the except clause
\* prints and returns, keeping whatever was registered before the raise.
LoadModels(fs) ==
    LET s1 == LoadModel(LoadStart, fs, "random_forest_health", rf_health_path)
        s2 == LoadModel(s1, fs, "random_forest_disease", rf_disease_path)
        s3 == LoadEncoder(s2, fs, "random_forest", rf_encoder_path)
        s4 == LoadModel(s3, fs, "svm_health", svm_health_path)
        s5 == SvmDiseaseStep(s4, fs)
        s6 == LoadModel(s5, fs, "knn_health", knn_health_path)
        s7 == KnnDiseaseStep(s6, fs)
    IN  KnnEncoderStep(s7, fs)

\* ------------------------------------------------------------------------
\* disease_info.py
\* ------------------------------------------------------------------------

\* The metadata table, with the fields name, usability and severity of each
\* record (the other fields are text of the same kind).
DISEASE_INFO ==
    [id \in {"healthy_basil", "downy_mildew", "fusarium_wilt", "gray_mold",
             "septoria_leaf_spot"} |->
        CASE id = "healthy_basil" ->
               [name |-> "Healthy Basil",
                usability |-> "Yes - Fully usable for all purposes",
                severity |-> "none"]
          [] id = "downy_mildew" ->
               [name |-> "Downy Mildew",
                usability |-> "Yes, for topical use / aroma (early only)",
                severity |-> "moderate"]
          [] id = "fusarium_wilt" ->
               [name |-> "Fusarium Wilt",
                usability |-> "No - Unfit for any medicinal use",
                severity |-> "severe"]
          [] id = "gray_mold" ->
               [name |-> "Gray Mold",
                usability |-> "Slight topical use only (early); discard later",
                severity |-> "severe"]
          [] id = "septoria_leaf_spot" ->
               [name |-> "Septoria Leaf Spot",
                usability |-> "Limited non-oral use (early stage only)",
                severity |-> "moderate"]]

\* The module global DISEASE_INFO at run time: a dict any code could change.
VARIABLE disease_table

\* A label that is not a string (an encoder fitted on integer labels).
NonStringLabel == "<int 7>"

\* What inverse_transform can return for a class index.
DecodedLabels == {"fusarium_wilt", "Gray_Mold", "leaf_rust", NonStringLabel}

IsString(v) == v # NonStringLabel

\* Variant of Lower that leaves the identifier as it is.
LowerOmitted(s) == s

\* str.lower() on the identifiers of DecodedLabels and of DISEASE_INFO.
Lower(s) == IF s = "Gray_Mold" THEN "gray_mold" ELSE s

\* DISEASE_INFO.get(disease_name.lower(), DISEASE_INFO.get("healthy_basil"))
get_disease_info(disease_name) ==
    DictGet(disease_table, Lower(disease_name),
            DictGet(disease_table, "healthy_basil", None))

\* ------------------------------------------------------------------------
\* Feature extraction and vector assembly
\* ------------------------------------------------------------------------

\* [f'lbp_{i}' for i in range(26)]
LbpNames == [i \in 1..26 |-> "lbp_" \o ToString(i - 1)]

\* The order used when the classifier has no feature_names_in_.
expected_features ==
    <<"mean_r", "mean_g", "mean_b", "mean_h", "mean_s", "mean_v",
      "yellow_area_percent", "entropy">>
    \o LbpNames \o <<"spot_count", "edge_density", "symmetry_score">>

\* The list extract_health_features returns: nine entries.  The numbers
\* stand for the measured values, which no registry decision reads.
extract_health_features(image) == [i \in 1..9 |-> i]

\* The dict extract_disease_features returns: one entry for each of the 37
\* names it assigns.  The values stand for the measured ones and are
\* pairwise distinct and nonzero, so that a vector shows which name each of
\* its entries was taken from.
extract_disease_features(image) ==
    [n \in {expected_features[i] : i \in 1..Len(expected_features)} |->
        CHOOSE i \in 1..Len(expected_features) : expected_features[i] = n]

\* [disease_features.get(col, 0) for col in cols]
FeatureVector(disease_features, cols) ==
    [i \in 1..Len(cols) |-> DictGet(disease_features, cols[i], 0)]

\* The attribute feature_names_in_ of a classifier: absent, or a sequence of
\* distinct names.
NoFeatureNames == [has |-> FALSE, names |-> << >>]

FeatureNameOptions ==
    {NoFeatureNames,
     [has |-> TRUE, names |-> expected_features],
     [has |-> TRUE, names |-> <<"symmetry_score", "mean_r", "leaf_age">>]}

\* Variant of KnnFeatureVector that always uses the canonical order.
KnnFeatureVectorCanonical(disease_features, meta) ==
    FeatureVector(disease_features, expected_features)

\* The vector the KNN path passes to predict: by feature_names_in_ when the
\* classifier has that attribute, in the canonical order otherwise.
KnnFeatureVector(disease_features, meta) ==
    IF meta.has THEN FeatureVector(disease_features, meta.names)
    ELSE FeatureVector(disease_features, expected_features)

\* Variant of StdFeatureVector that leaves out the names the extractor
\* does not produce instead of defaulting them to 0.
StdFeatureVectorSkipMissing(disease_features, meta) ==
    FeatureVector(disease_features,
                  SelectSeq(meta.names, LAMBDA n : n \in DOMAIN disease_features))

\* The frame the RF/SVM path passes to predict (the classifier has
\* feature_names_in_ on this path).
StdFeatureVector(disease_features, meta) ==
    FeatureVector(disease_features, meta.names)

\* ------------------------------------------------------------------------
\* State
\* ------------------------------------------------------------------------

VARIABLES
    files,                  \* the artifact directory: path -> FileStates
    models,                 \* self.models
    label_encoders,         \* self.label_encoders
    pc,                     \* "new", "idle", or the stage predict() is at
    model_type,             \* predict's arguments
    image_path,
    image,                  \* predict's locals
    health_features,
    health_prediction,
    health_probs,
    health_confidence,
    disease_features,
    disease_model,
    feature_names_in,       \* disease_model.feature_names_in_, once read
    features_passed,        \* the argument of disease_model.predict
    disease_prediction,
    disease_probs,
    confidence,
    encoder,
    disease_name,
    elapsed,                \* time.time() - start_time, in stages completed
    result,                 \* what the call returned (or raised)
    failed_stage,           \* history: the stage that failed, "none" if none
    stages,                 \* history: the stages the call has executed
    extract_disease_calls,  \* history: calls of extract_disease_features
    suspended               \* the frames of the predict() calls not running

registry == <<files, models, label_encoders>>

locals ==
    <<image, health_features, health_prediction, health_probs,
      health_confidence, disease_features, disease_model, feature_names_in, features_passed,
      disease_prediction, disease_probs, confidence, encoder, disease_name>>

vars ==
    <<files, models, label_encoders, pc, model_type, image_path, image,
      health_features, health_prediction, health_probs, health_confidence,
      disease_features, disease_model, feature_names_in, features_passed, disease_prediction,
      disease_probs, confidence, encoder, disease_name, elapsed, result,
      failed_stage, stages, extract_disease_calls, suspended, disease_table>>

\* What predict() shares with the other calls besides the registries.
shared == <<suspended, disease_table>>

NoResult == [pending |-> TRUE]

\* No call in progress: every local unbound.
NoFrame ==
    /\ image = Unbound
    /\ health_features = << >>
    /\ health_prediction = -1
    /\ health_probs = << >>
    /\ health_confidence = -1
    /\ disease_features = EmptyDict
    /\ disease_model = Unbound
    /\ feature_names_in = NoFeatureNames
    /\ features_passed = << >>
    /\ disease_prediction = -1
    /\ disease_probs = << >>
    /\ confidence = -1
    /\ encoder = Unbound
    /\ disease_name = Unbound

\* ------------------------------------------------------------------------
\* The dicts predict returns
\* ------------------------------------------------------------------------

\* Variant of AvailableModels that lists the health models only.
AvailableHealthModels(registered) ==
    DOMAIN registered \cap {"random_forest_health", "svm_health", "knn_health"}

\* list(self.models.keys()), as the set of keys.
AvailableModels(registered) == DOMAIN registered

\* A return with "success": False.  The message is its format string with
\* the values formatted into it.
ErrorResult(message, t) ==
    [success |-> FALSE, prediction |-> "Error", message |-> message,
     processing_time |-> t]

CouldNotLoadImage == [text |-> "Could not load image"]

ModelNotAvailable(mt, registered) ==
    [text |-> "Model {model_type} not available. Available models: {keys}",
     model_type |-> mt, keys |-> AvailableModels(registered)]

NoDiseaseModel == [text |-> "No disease classification model available"]

KnnPredictionError(e) == [text |-> "KNN disease prediction error: {e}", e |-> e]

NoFeatureNamesMessage == [text |-> "Model feature names not available"]

NoLabelEncoder == [text |-> "Label encoder not available"]

PredictionError(e) == [text |-> "Prediction error: {e}", e |-> e]

\* Variant of ExceptHandler that lets the exception leave predict.
ExceptHandlerReraise(e, t) == [raised |-> e]

\* except Exception as e: ... return {...} at the end of predict.
ExceptHandler(e, t) == ErrorResult(PredictionError(e), t)

\* The return of the healthy branch.
HealthyResultDict(conf, t) ==
    [success |-> TRUE, prediction |-> "Healthy Plant", confidence |-> conf,
     disease_info |-> get_disease_info("healthy_basil"), processing_time |-> t]

\* The return of the diseased branch.
DiseasedResultDict(name, conf, t) ==
    [success |-> TRUE,
     prediction |-> "Diseased Plant - " \o get_disease_info(name).name,
     confidence |-> conf, disease_info |-> get_disease_info(name),
     processing_time |-> t]

\* ------------------------------------------------------------------------
\* Classifier capabilities
\* ------------------------------------------------------------------------

NoProbaAttr == [kind |-> "no_attr", probs |-> << >>]
ProbaRaises == [kind |-> "raises", probs |-> << >>]

\* hasattr(model, 'predict_proba') and what the call does: the attribute is
\* missing, the call raises, or it returns one of vectors.
ProbaOutcomes(vectors) ==
    {NoProbaAttr, ProbaRaises} \cup {[kind |-> "ok", probs |-> v] : v \in vectors}

\* probs[prediction], with Python's 0-based index.
ProbOf(probs, prediction) == probs[prediction + 1]

HealthDefaultConfidence == 95
KnnDefaultConfidence == 75
StdDefaultConfidence == 75

\* health_confidence after lines 223-230: the default unless predict_proba
\* exists and returns.
HealthConfidence(proba, prediction) ==
    IF proba.kind = "ok" THEN ProbOf(proba.probs, prediction)
    ELSE HealthDefaultConfidence

\* confidence after lines 294-303 (KNN path): as for health.
KnnConfidence(proba, prediction) ==
    IF proba.kind = "ok" THEN ProbOf(proba.probs, prediction)
    ELSE KnnDefaultConfidence

\* Variant of BranchAfterHealth that runs health inference again on a
\* diseased prediction.
BranchRepeatsHealthInfer(prediction) ==
    IF prediction = 0 THEN "healthy_result" ELSE "health_infer"

\* Variant of BranchAfterHealth that extracts disease features always.
BranchAlwaysDisease(prediction) == "disease_extract"

\* if health_prediction == 0: ... else: ...
BranchAfterHealth(prediction) ==
    IF prediction = 0 THEN "healthy_result" ELSE "disease_extract"

\* What a predict call does: it raises, or returns a class index.
PredictRaises == [raises |-> TRUE, class |-> -1]

PredictOutcomes(classes) ==
    {PredictRaises} \cup {[raises |-> FALSE, class |-> c] : c \in classes}

\* What inverse_transform does: it raises (unseen label), or returns a label.
DecodeRaises == "<raises>"

DecodeOutcomes == DecodedLabels \cup {DecodeRaises}

\* ------------------------------------------------------------------------
\* predict: disease model selection and inference (lines 247-336)
\* ------------------------------------------------------------------------

\* disease_model_key after the fallback to random forest.
ResolveDiseaseKey(mt, registered) ==
    IF (mt \o "_disease") \in DOMAIN registered THEN mt \o "_disease"
    ELSE "random_forest_disease"

\* The locals the stage leaves unbound unless it binds them.
DiseaseInferBase ==
    [model |-> Unbound, names |-> NoFeatureNames, passed |-> << >>,
     prediction |-> -1, probs |-> << >>, confidence |-> -1,
     result |-> NoResult, failed |-> "none", next |-> "done"]

\* The branch taken when model_type == 'knn' and 'knn_disease' in self.models.
\* Everything runs inside try/except Exception, which returns the KNN error;
\* a failing predict_proba is swallowed by the inner bare except.
KnnPath(model, features, meta, predicted, proba, t) ==
    LET vec == KnnFeatureVector(features, meta)
        b == [DiseaseInferBase EXCEPT !.model = model, !.names = meta]
    IN  IF model = None
        THEN [b EXCEPT
                !.result = ErrorResult(KnnPredictionError(
                    "'NoneType' object has no attribute 'predict'"), t),
                !.failed = "disease_infer"]
        ELSE IF predicted.raises
        THEN [b EXCEPT
                !.passed = vec,
                !.result = ErrorResult(KnnPredictionError("predict raised"), t),
                !.failed = "disease_infer"]
        ELSE [b EXCEPT
                !.passed = vec,
                !.prediction = predicted.class,
                !.probs = proba.probs,
                !.confidence = KnnConfidence(proba, predicted.class),
                !.next = "label_resolve"]

\* The branch taken otherwise (RF/SVM preparation).  Nothing is caught here:
\* an exception reaches the except clause at the end of predict.
StdPath(model, features, meta, predicted, proba, t) ==
    LET b == [DiseaseInferBase EXCEPT !.model = model, !.names = meta]
    IN  IF ~meta.has
        THEN [b EXCEPT !.result = ErrorResult(NoFeatureNamesMessage, t),
                       !.failed = "disease_infer"]
        ELSE IF predicted.raises
        THEN [b EXCEPT !.passed = StdFeatureVector(features, meta),
                       !.result = ExceptHandler("predict raised", t),
                       !.failed = "disease_infer"]
        ELSE IF proba.kind = "raises"
        THEN [b EXCEPT !.passed = StdFeatureVector(features, meta),
                       !.prediction = predicted.class,
                       !.result = ExceptHandler("predict_proba raised", t),
                       !.failed = "disease_proba"]
        ELSE [b EXCEPT !.passed = StdFeatureVector(features, meta),
                       !.prediction = predicted.class,
                       !.probs = proba.probs,
                       !.confidence =
                           IF proba.kind = "ok"
                           THEN ProbOf(proba.probs, predicted.class)
                           ELSE StdDefaultConfidence,
                       !.next = "label_resolve"]

\* Lines 247-336 for one choice of what the classifier has and does.  A
\* registry value of None has neither attribute.
DiseaseInferOutcome(mt, registered, features, meta, predicted, proba, t) ==
    LET key == ResolveDiseaseKey(mt, registered)
    IN  IF key \notin DOMAIN registered
        THEN [DiseaseInferBase EXCEPT !.result = ErrorResult(NoDiseaseModel, t),
                                      !.failed = "disease_infer"]
        ELSE LET model == registered[key]
                 m == IF model = None THEN NoFeatureNames ELSE meta
                 p == IF model = None THEN NoProbaAttr ELSE proba
             IN  IF mt = "knn" /\ "knn_disease" \in DOMAIN registered
                 THEN KnnPath(model, features, m, predicted, p, t)
                 ELSE StdPath(model, features, m, predicted, p, t)

\* ------------------------------------------------------------------------
\* predict: label resolution (lines 338-350)
\* ------------------------------------------------------------------------

\* encoder_key = model_type if model_type in self.label_encoders else 'random_forest'
EncoderKey(mt, encoders) == IF mt \in DOMAIN encoders THEN mt ELSE "random_forest"

LabelResolveOutcome(mt, encoders, decoded, t) ==
    LET key == EncoderKey(mt, encoders)
        b == [encoder |-> Unbound, name |-> Unbound, result |-> NoResult,
              failed |-> "none", next |-> "done"]
    IN  IF key \notin DOMAIN encoders
        THEN [b EXCEPT !.result = ErrorResult(NoLabelEncoder, t),
                       !.failed = "label_resolve"]
        ELSE IF encoders[key] = None
        THEN [b EXCEPT !.encoder = None,
                       !.result = ExceptHandler(
                           "'NoneType' object has no attribute 'inverse_transform'", t),
                       !.failed = "label_decode"]
        ELSE IF decoded = DecodeRaises
        THEN [b EXCEPT !.encoder = encoders[key],
                       !.result = ExceptHandler("inverse_transform raised", t),
                       !.failed = "label_decode"]
        ELSE [b EXCEPT !.encoder = encoders[key], !.name = decoded,
                       !.next = "diseased_result"]

\* ------------------------------------------------------------------------
\* Initial state and actions
\* ------------------------------------------------------------------------

\* __init__ up to the call of load_models: both registries empty.
Init ==
    /\ files \in Directories
    /\ models = EmptyDict
    /\ label_encoders = EmptyDict
    /\ pc = "new"
    /\ model_type = Unbound
    /\ image_path = Unbound
    /\ NoFrame
    /\ elapsed = 0
    /\ result = NoResult
    /\ failed_stage = "none"
    /\ stages = << >>
    /\ extract_disease_calls = 0
    /\ suspended = << >>
    /\ disease_table = DISEASE_INFO

\* self.load_models(), called once by __init__.
Construct ==
    /\ pc = "new"
    /\ models' = LoadModels(files).models
    /\ label_encoders' = LoadModels(files).label_encoders
    /\ pc' = "idle"
    /\ UNCHANGED <<files, shared, model_type, image_path, locals, elapsed, result,
                   failed_stage, stages, extract_disease_calls>>

\* predict(image_path, model_type) is entered: start_time = time.time().
Call(mt, path) ==
    /\ pc = "idle"
    /\ model_type' = mt
    /\ image_path' = path
    /\ elapsed' = 0
    /\ pc' = "imread"
    /\ UNCHANGED <<registry, shared, locals, result, failed_stage, stages,
                   extract_disease_calls>>

\* The stage ends the call with the dict r (stage names the failure).
Finish(r, stage) ==
    /\ result' = r
    /\ failed_stage' = stage
    /\ pc' = "done"

\* The stage hands over to the next one.
Continue(next) ==
    /\ pc' = next
    /\ UNCHANGED <<result, failed_stage>>

\* image = cv2.imread(image_path); None ends the call (lines 191-198).
LoadImage ==
    /\ pc = "imread"
    /\ elapsed' = elapsed + 1
    /\ stages' = Append(stages, pc)
    /\ image' = IF image_path = UnreadablePath THEN None ELSE image_path
    /\ IF image_path = UnreadablePath
       THEN Finish(ErrorResult(CouldNotLoadImage, elapsed'), "image_load")
       ELSE Continue("health_extract")
    /\ UNCHANGED <<registry, shared, model_type, image_path, health_features,
                   health_prediction, health_probs, health_confidence,
                   disease_features, disease_model, feature_names_in,
                   features_passed, disease_prediction, disease_probs,
                   confidence, encoder, disease_name, extract_disease_calls>>

\* health_features = self.extract_health_features(image) (line 203); the
\* extractor re-raises whatever its image processing raises.
HealthExtract ==
    /\ pc = "health_extract"
    /\ elapsed' = elapsed + 1
    /\ stages' = Append(stages, pc)
    /\ \E ok \in BOOLEAN :
        IF ok
        THEN /\ health_features' = extract_health_features(image)
             /\ Continue("health_infer")
        ELSE /\ health_features' = health_features
             /\ Finish(ExceptHandler("extract_health_features raised", elapsed'),
                       "health_extract")
    /\ UNCHANGED <<registry, shared, model_type, image_path, image, health_prediction,
                   health_probs, health_confidence, disease_features,
                   disease_model, feature_names_in, features_passed,
                   disease_prediction, disease_probs, confidence, encoder,
                   disease_name, extract_disease_calls>>

\* Lines 207-230: the health model lookup, predict and predict_proba (whose
\* failure the bare except swallows).
HealthInfer ==
    /\ pc = "health_infer"
    /\ elapsed' = elapsed + 1
    /\ stages' = Append(stages, pc)
    /\ \E predicted \in PredictOutcomes(HealthClasses),
          proba \in ProbaOutcomes(HealthProbVectors) :
        IF (model_type \o "_health") \notin DOMAIN models
        THEN /\ Finish(ErrorResult(ModelNotAvailable(model_type, models), elapsed'),
                       "health_infer")
             /\ UNCHANGED <<health_prediction, health_probs, health_confidence>>
        ELSE IF models[model_type \o "_health"] = None \/ predicted.raises
        THEN /\ Finish(ExceptHandler("health predict raised", elapsed'),
                       "health_infer")
             /\ UNCHANGED <<health_prediction, health_probs, health_confidence>>
        ELSE /\ health_prediction' = predicted.class
             /\ health_probs' = proba.probs
             /\ health_confidence' = HealthConfidence(proba, predicted.class)
             /\ Continue(BranchAfterHealth(predicted.class))
    /\ UNCHANGED <<registry, shared, model_type, image_path, image, health_features,
                   disease_features, disease_model, feature_names_in,
                   features_passed, disease_prediction, disease_probs,
                   confidence, encoder, disease_name, extract_disease_calls>>

\* Lines 233-241: the healthy return.
HealthyResult ==
    /\ pc = "healthy_result"
    /\ elapsed' = elapsed + 1
    /\ stages' = Append(stages, pc)
    /\ Finish(HealthyResultDict(health_confidence, elapsed'), "none")
    /\ UNCHANGED <<registry, shared, model_type, image_path, locals, extract_disease_calls>>

\* disease_features = self.extract_disease_features(image) (line 244).
DiseaseExtract ==
    /\ pc = "disease_extract"
    /\ elapsed' = elapsed + 1
    /\ stages' = Append(stages, pc)
    /\ extract_disease_calls' = extract_disease_calls + 1
    /\ \E ok \in BOOLEAN :
        IF ok
        THEN /\ disease_features' = extract_disease_features(image)
             /\ Continue("disease_infer")
        ELSE /\ disease_features' = disease_features
             /\ Finish(ExceptHandler("extract_disease_features raised", elapsed'),
                       "disease_extract")
    /\ UNCHANGED <<registry, shared, model_type, image_path, image, health_features,
                   health_prediction, health_probs, health_confidence,
                   disease_model, feature_names_in, features_passed,
                   disease_prediction, disease_probs, confidence, encoder,
                   disease_name>>

\* Lines 247-336.
DiseaseInfer ==
    /\ pc = "disease_infer"
    /\ elapsed' = elapsed + 1
    /\ stages' = Append(stages, pc)
    /\ \E meta \in FeatureNameOptions,
          predicted \in PredictOutcomes(DiseaseClasses),
          proba \in ProbaOutcomes(DiseaseProbVectors) :
        LET o == DiseaseInferOutcome(model_type, models, disease_features, meta,
                                     predicted, proba, elapsed')
        IN  /\ disease_model' = o.model
            /\ feature_names_in' = o.names
            /\ features_passed' = o.passed
            /\ disease_prediction' = o.prediction
            /\ disease_probs' = o.probs
            /\ confidence' = o.confidence
            /\ IF o.next = "done" THEN Finish(o.result, o.failed)
               ELSE Continue(o.next)
    /\ UNCHANGED <<registry, shared, model_type, image_path, image, health_features,
                   health_prediction, health_probs, health_confidence,
                   disease_features, encoder, disease_name,
                   extract_disease_calls>>

\* Variant of LabelResolve that registers the encoder it resolved under the
\* backend's key.
LabelResolveCachingEncoder ==
    /\ pc = "label_resolve"
    /\ elapsed' = elapsed + 1
    /\ stages' = Append(stages, pc)
    /\ \E decoded \in DecodeOutcomes :
        LET o == LabelResolveOutcome(model_type, label_encoders, decoded, elapsed')
        IN  /\ encoder' = o.encoder
            /\ disease_name' = o.name
            /\ label_encoders' =
                   IF o.encoder = Unbound THEN label_encoders
                   ELSE DictPut(label_encoders, model_type, o.encoder)
            /\ IF o.next = "done" THEN Finish(o.result, o.failed)
               ELSE Continue(o.next)
    /\ UNCHANGED <<files, models, shared, model_type, image_path, image,
                   health_features, health_prediction, health_probs,
                   health_confidence, disease_features, disease_model,
                   feature_names_in, features_passed, disease_prediction,
                   disease_probs, confidence, extract_disease_calls>>

\* Lines 338-350.
LabelResolve ==
    /\ pc = "label_resolve"
    /\ elapsed' = elapsed + 1
    /\ stages' = Append(stages, pc)
    /\ \E decoded \in DecodeOutcomes :
        LET o == LabelResolveOutcome(model_type, label_encoders, decoded, elapsed')
        IN  /\ encoder' = o.encoder
            /\ disease_name' = o.name
            /\ IF o.next = "done" THEN Finish(o.result, o.failed)
               ELSE Continue(o.next)
    /\ UNCHANGED <<registry, shared, model_type, image_path, image, health_features,
                   health_prediction, health_probs, health_confidence,
                   disease_features, disease_model, feature_names_in,
                   features_passed, disease_prediction, disease_probs,
                   confidence, extract_disease_calls>>

\* Lines 352-361: get_disease_info and the diseased return; a label without
\* .lower() raises into the except clause.
DiseasedResult ==
    /\ pc = "diseased_result"
    /\ elapsed' = elapsed + 1
    /\ stages' = Append(stages, pc)
    /\ IF IsString(disease_name)
       THEN Finish(DiseasedResultDict(disease_name, confidence, elapsed'), "none")
       ELSE Finish(ExceptHandler("label has no attribute 'lower'", elapsed'),
                   "metadata_lookup")
    /\ UNCHANGED <<registry, shared, model_type, image_path, locals, extract_disease_calls>>

\* The caller has the result; the frame of the call is gone.
Return ==
    /\ pc = "done"
    /\ pc' = "idle"
    /\ model_type' = Unbound
    /\ image_path' = Unbound
    /\ image' = Unbound
    /\ health_features' = << >>
    /\ health_prediction' = -1
    /\ health_probs' = << >>
    /\ health_confidence' = -1
    /\ disease_features' = EmptyDict
    /\ disease_model' = Unbound
    /\ feature_names_in' = NoFeatureNames
    /\ features_passed' = << >>
    /\ disease_prediction' = -1
    /\ disease_probs' = << >>
    /\ confidence' = -1
    /\ encoder' = Unbound
    /\ disease_name' = Unbound
    /\ elapsed' = 0
    /\ result' = NoResult
    /\ failed_stage' = "none"
    /\ stages' = << >>
    /\ extract_disease_calls' = 0
    /\ UNCHANGED <<registry, shared>>

Next ==
    \/ Construct
    \/ \E mt \in Backends, path \in ImagePaths : Call(mt, path)
    \/ LoadImage
    \/ HealthExtract
    \/ HealthInfer
    \/ HealthyResult
    \/ DiseaseExtract
    \/ DiseaseInfer
    \/ LabelResolve
    \/ DiseasedResult
    \/ Return

Spec == Init /\ [][Next]_vars

\* A step of the call in progress.  predict has no loop and waits for
\* nothing, so a stage that is entered runs, given that the library call it
\* makes returns or raises.
Stage ==
    \/ LoadImage
    \/ HealthExtract
    \/ HealthInfer
    \/ HealthyResult
    \/ DiseaseExtract
    \/ DiseaseInfer
    \/ LabelResolve
    \/ DiseasedResult

LiveSpec == Spec /\ WF_vars(Stage)

\* ------------------------------------------------------------------------
\* Concurrent calls of predict()
\* ------------------------------------------------------------------------

\* main.py calls predictor.predict from request handlers that share the one
\* predictor.  The variables of a call are the frame of the call that is
\* running; the frames of the other calls wait in suspended, and a switch of
\* threads between two stages exchanges the running frame with one of them.
CurrentFrame ==
    [pc |-> pc, model_type |-> model_type, image_path |-> image_path,
     image |-> image, health_features |-> health_features,
     health_prediction |-> health_prediction, health_probs |-> health_probs,
     health_confidence |-> health_confidence,
     disease_features |-> disease_features, disease_model |-> disease_model,
     feature_names_in |-> feature_names_in, features_passed |-> features_passed,
     disease_prediction |-> disease_prediction, disease_probs |-> disease_probs,
     confidence |-> confidence, encoder |-> encoder,
     disease_name |-> disease_name, elapsed |-> elapsed, result |-> result,
     failed_stage |-> failed_stage, stages |-> stages,
     extract_disease_calls |-> extract_disease_calls]

\* A thread that has not entered predict().
IdleFrame ==
    [pc |-> "idle", model_type |-> Unbound, image_path |-> Unbound,
     image |-> Unbound, health_features |-> << >>, health_prediction |-> -1,
     health_probs |-> << >>, health_confidence |-> -1,
     disease_features |-> EmptyDict, disease_model |-> Unbound,
     feature_names_in |-> NoFeatureNames, features_passed |-> << >>,
     disease_prediction |-> -1, disease_probs |-> << >>, confidence |-> -1,
     encoder |-> Unbound, disease_name |-> Unbound, elapsed |-> 0,
     result |-> NoResult, failed_stage |-> "none", stages |-> << >>,
     extract_disease_calls |-> 0]

\* The artifact directories of the concurrent runs: everything loaded; no
\* SVM disease classifier (an svm call falls back to the random-forest
\* classifier and encoder); only the KNN health model (knn_disease and the
\* knn encoder are registered as None).
SharedDirectories ==
    {[p \in ArtifactPaths |-> "ok"],
     [p \in ArtifactPaths |-> IF p = svm_disease_path THEN "absent" ELSE "ok"],
     [p \in ArtifactPaths |-> IF p = knn_health_path THEN "ok" ELSE "absent"]}

\* A constructed predictor and two threads, neither inside predict().
ConcInit ==
    /\ files \in SharedDirectories
    /\ models = LoadModels(files).models
    /\ label_encoders = LoadModels(files).label_encoders
    /\ disease_table = DISEASE_INFO
    /\ pc = "idle"
    /\ model_type = Unbound
    /\ image_path = Unbound
    /\ NoFrame
    /\ elapsed = 0
    /\ result = NoResult
    /\ failed_stage = "none"
    /\ stages = << >>
    /\ extract_disease_calls = 0
    /\ suspended = <<IdleFrame>>

\* The running thread is descheduled and thread i runs.
Switch(i) ==
    /\ suspended' = [suspended EXCEPT ![i] = CurrentFrame]
    /\ pc' = suspended[i].pc
    /\ model_type' = suspended[i].model_type
    /\ image_path' = suspended[i].image_path
    /\ image' = suspended[i].image
    /\ health_features' = suspended[i].health_features
    /\ health_prediction' = suspended[i].health_prediction
    /\ health_probs' = suspended[i].health_probs
    /\ health_confidence' = suspended[i].health_confidence
    /\ disease_features' = suspended[i].disease_features
    /\ disease_model' = suspended[i].disease_model
    /\ feature_names_in' = suspended[i].feature_names_in
    /\ features_passed' = suspended[i].features_passed
    /\ disease_prediction' = suspended[i].disease_prediction
    /\ disease_probs' = suspended[i].disease_probs
    /\ confidence' = suspended[i].confidence
    /\ encoder' = suspended[i].encoder
    /\ disease_name' = suspended[i].disease_name
    /\ elapsed' = suspended[i].elapsed
    /\ result' = suspended[i].result
    /\ failed_stage' = suspended[i].failed_stage
    /\ stages' = suspended[i].stages
    /\ extract_disease_calls' = suspended[i].extract_disease_calls
    /\ UNCHANGED <<registry, disease_table>>

\* What the artifacts answer in the concurrent runs, a part of what they can
\* answer: probabilities <<30, 70>> and <<20, 30, 50>> where predict_proba
\* returns, disease classes 0 and 2, feature names absent or canonical.
\* Decoded labels, raising calls and missing attributes stay as they are.
ConcAnswers ==
    /\ health_probs \in {<< >>, <<30, 70>>}
    /\ feature_names_in \in
           {NoFeatureNames, [has |-> TRUE, names |-> expected_features]}
    /\ disease_prediction \in {-1, 0, 2}
    /\ disease_probs \in {<< >>, <<20, 30, 50>>}

ConcNext ==
    \/ \E mt \in Backends, path \in ImagePaths : Call(mt, path)
    \/ LoadImage /\ ConcAnswers'
    \/ HealthExtract /\ ConcAnswers'
    \/ HealthInfer /\ ConcAnswers'
    \/ HealthyResult /\ ConcAnswers'
    \/ DiseaseExtract /\ ConcAnswers'
    \/ DiseaseInfer /\ ConcAnswers'
    \/ LabelResolve /\ ConcAnswers'
    \/ DiseasedResult /\ ConcAnswers'
    \/ Return
    \/ \E i \in DOMAIN suspended : Switch(i)

ConcSpec == ConcInit /\ [][ConcNext]_vars

\* ------------------------------------------------------------------------
\* The feature extractors at pixel level
\* ------------------------------------------------------------------------

\* The pipeline above keeps the feature values symbolic.  Here the colour
\* and symmetry features are computed from the pixels.  An image is the
\* array the extractor works on after cv2.resize (a resize to the size the
\* image already has keeps its pixels); 256 x 256 and 640 x 640 are scaled
\* down to ImgHeight rows of 2 * HalfWidth pixels.
ImgHeight == 1

HalfWidth == 2

ImgWidth == 2 * HalfWidth

\* A pixel as cv2.imread decodes it: <<blue, green, red>>, each in 0..255;
\* numpy channel index k is position k + 1.
Palette == {<<0, 0, 0>>, <<255, 255, 255>>, <<255, 0, 0>>, <<0, 0, 255>>}

Images == [1..ImgHeight -> [1..ImgWidth -> Palette]]

RECURSIVE SumTo(_, _)
\* The sum of f[1] .. f[n].
SumTo(f, n) == IF n = 0 THEN 0 ELSE f[n] + SumTo(f, n - 1)

\* np.mean(a) of an array of ImgHeight rows of w integers: the exact sum and
\* the number of elements (the mean is their quotient).
Mean(a, w) ==
    [sum |-> SumTo([y \in 1..ImgHeight |-> SumTo(a[y], w)], ImgHeight),
     count |-> ImgHeight * w]

\* img[:, :, k]
Channel(img, k) == [y \in 1..ImgHeight |-> [x \in 1..ImgWidth |-> img[y][x][k + 1]]]

\* cv2.cvtColor(img, cv2.COLOR_BGR2GRAY) on 8-bit pixels: the fixed-point
\* weighting of OpenCV, rounded.
Gray(img) ==
    [y \in 1..ImgHeight |-> [x \in 1..ImgWidth |->
        (img[y][x][3] * 4899 + img[y][x][2] * 9617 + img[y][x][1] * 1868 + 8192)
            \div 16384]]

\* extract_health_features, lines 84-116: the GLCM properties and the contour
\* area stay symbolic, the three colour means are computed.
HealthFeatures(img) ==
    LET r_mean == Mean(Channel(img, 0), ImgWidth)
        g_mean == Mean(Channel(img, 1), ImgWidth)
        b_mean == Mean(Channel(img, 2), ImgWidth)
    IN  <<[graycoprops |-> "contrast"], [graycoprops |-> "dissimilarity"],
          [graycoprops |-> "homogeneity"], [graycoprops |-> "energy"],
          [graycoprops |-> "correlation"], r_mean, g_mean, b_mean,
          [contourArea |-> "largest"]>>

\* left - right on two uint8 arrays: each difference is taken modulo 256.
Uint8Subtract(left, right) ==
    [y \in 1..ImgHeight |-> [x \in 1..HalfWidth |-> (left[y][x] - right[y][x]) % 256]]

\* np.abs on a uint8 array: no element is negative, nothing changes.
Uint8Abs(a) == a

\* Lines 173-177 on the grayscale array: the score 1 - mean / 255 as the
\* fraction num / den.
SymmetryScore(gray) ==
    LET left == [y \in 1..ImgHeight |-> [x \in 1..HalfWidth |-> gray[y][x]]]
        right == [y \in 1..ImgHeight |-> [x \in 1..HalfWidth |->
                     gray[y][ImgWidth + 1 - x]]]
        m == Mean(Uint8Abs(Uint8Subtract(left, right)), HalfWidth)
    IN  [num |-> 255 * m.count - m.sum, den |-> 255 * m.count]

\* extract_disease_features, lines 136-138 and 173-177: of its 37 entries
\* the colour means and the symmetry score.
DiseaseColourAndSymmetry(img) ==
    [k \in {"mean_r", "mean_g", "mean_b", "symmetry_score"} |->
        CASE k = "mean_r" -> Mean(Channel(img, 2), ImgWidth)
          [] k = "mean_g" -> Mean(Channel(img, 1), ImgWidth)
          [] k = "mean_b" -> Mean(Channel(img, 0), ImgWidth)
          [] k = "symmetry_score" -> SymmetryScore(Gray(img))]

\* The two extractors applied to a decoded image, in either order.
FeatureInit ==
    /\ files \in {[p \in ArtifactPaths |-> "absent"]}
    /\ models = EmptyDict
    /\ label_encoders = EmptyDict
    /\ pc = "features"
    /\ model_type = Unbound
    /\ image_path = "leaf.jpg"
    /\ image \in Images
    /\ health_features = << >>
    /\ health_prediction = -1
    /\ health_probs = << >>
    /\ health_confidence = -1
    /\ disease_features = EmptyDict
    /\ disease_model = Unbound
    /\ feature_names_in = NoFeatureNames
    /\ features_passed = << >>
    /\ disease_prediction = -1
    /\ disease_probs = << >>
    /\ confidence = -1
    /\ encoder = Unbound
    /\ disease_name = Unbound
    /\ elapsed = 0
    /\ result = NoResult
    /\ failed_stage = "none"
    /\ stages = << >>
    /\ extract_disease_calls = 0
    /\ suspended = << >>
    /\ disease_table = DISEASE_INFO

ExtractHealthFeatures ==
    /\ pc = "features"
    /\ health_features = << >>
    /\ health_features' = HealthFeatures(image)
    /\ UNCHANGED <<registry, shared, pc, model_type, image_path, image,
                   health_prediction, health_probs, health_confidence,
                   disease_features, disease_model, feature_names_in,
                   features_passed, disease_prediction, disease_probs,
                   confidence, encoder, disease_name, elapsed, result,
                   failed_stage, stages, extract_disease_calls>>

ExtractDiseaseFeatures ==
    /\ pc = "features"
    /\ disease_features = EmptyDict
    /\ disease_features' = DiseaseColourAndSymmetry(image)
    /\ extract_disease_calls' = extract_disease_calls + 1
    /\ UNCHANGED <<registry, shared, pc, model_type, image_path, image,
                   health_features, health_prediction, health_probs,
                   health_confidence, disease_model, feature_names_in,
                   features_passed, disease_prediction, disease_probs,
                   confidence, encoder, disease_name, elapsed, result,
                   failed_stage, stages>>

FeatureNext == ExtractHealthFeatures \/ ExtractDiseaseFeatures

FeatureSpec == FeatureInit /\ [][FeatureNext]_vars

\* ------------------------------------------------------------------------
\* Properties
\* ------------------------------------------------------------------------

\* The call has gone through disease model selection and inference.
Executed(stage) == \E i \in 1..Len(stages) : stages[i] = stage

DiseaseInferDone == Executed("disease_infer")

\* The call has gone through label resolution.
LabelResolveDone == Executed("label_resolve")

\* The entries of features taken by the names cols, in that order, 0 for a
\* name features lacks.
VectorByNames(features, cols) ==
    [i \in 1..Len(cols) |->
        IF cols[i] \in DOMAIN features THEN features[cols[i]] ELSE 0]

CanonicalOrder ==
    <<"mean_r", "mean_g", "mean_b", "mean_h", "mean_s", "mean_v",
      "yellow_area_percent", "entropy", "lbp_0", "lbp_1", "lbp_2", "lbp_3",
      "lbp_4", "lbp_5", "lbp_6", "lbp_7", "lbp_8", "lbp_9", "lbp_10", "lbp_11",
      "lbp_12", "lbp_13", "lbp_14", "lbp_15", "lbp_16", "lbp_17", "lbp_18",
      "lbp_19", "lbp_20", "lbp_21", "lbp_22", "lbp_23", "lbp_24", "lbp_25",
      "spot_count", "edge_density", "symmetry_score">>

\* C1: once the health classifier has returned class 0, disease feature
\* extraction is never invoked and no disease model or label encoder is
\* consulted, and the call ends with success, "Healthy Plant" and the
\* healthy_basil record.
C1_HealthySkipsDiseaseStage ==
    health_prediction = 0 =>
        /\ pc \in {"healthy_result", "done"}
        /\ extract_disease_calls = 0
        /\ DOMAIN disease_features = {}
        /\ disease_model = Unbound
        /\ encoder = Unbound
        /\ pc = "done" =>
            /\ result.success
            /\ result.prediction = "Healthy Plant"
            /\ result.disease_info = DISEASE_INFO["healthy_basil"]

C1_Witness ==
    /\ pc = "done"
    /\ health_prediction = 0
    /\ result.success
    /\ result.disease_info.name = "Healthy Basil"

\* C2: a call that has ended has returned a dict, not raised; if any stage
\* failed the dict has success False, a non-empty message and a
\* processing_time, and no call in which a stage failed returns success True.
C2_FailuresAreReturned ==
    pc = "done" =>
        /\ "raised" \notin DOMAIN result
        /\ {"success", "processing_time"} \subseteq DOMAIN result
        /\ result.processing_time = elapsed
        /\ failed_stage # "none" =>
            /\ ~result.success
            /\ "message" \in DOMAIN result
            /\ result.message.text # ""
        /\ result.success => failed_stage = "none"

C2_Witness ==
    /\ pc = "done"
    /\ failed_stage = "label_decode"
    /\ encoder # None
    /\ ~result.success
    /\ result.message.text = "Prediction error: {e}"

\* C3 as stated: whenever `{backend}_health` is not in the registry, the call
\* returns success False with the message that lists the available keys.
C3_MissingHealthModelAlwaysListsKeys ==
    (pc = "done" /\ (model_type \o "_health") \notin DOMAIN models) =>
        /\ ~result.success
        /\ "keys" \in DOMAIN result.message
        /\ result.message.keys = DOMAIN models

\* C3 amended: whenever `{backend}_health` is not in the registry the call
\* returns success False, and when its image was decoded and its health
\* feature extraction succeeded the message is the one that lists the
\* available keys.
C3_MissingHealthModelListsKeys ==
    (pc = "done" /\ (model_type \o "_health") \notin DOMAIN models) =>
        /\ ~result.success
        /\ (image # None /\ health_features # << >>) =>
               /\ "keys" \in DOMAIN result.message
               /\ result.message.keys = DOMAIN models
               /\ result.message.model_type = model_type

C3_Witness ==
    /\ pc = "done"
    /\ model_type = "svm"
    /\ "svm_health" \notin DOMAIN models
    /\ health_features # << >>
    /\ ~result.success
    /\ result.message.keys = {"random_forest_health", "random_forest_disease"}

\* C4: after disease model selection the classifier in use is the artifact
\* of `{backend}_disease` when one is available, else that of
\* random_forest_disease; with neither available the call has failed with
\* "No disease classification model available" and no absent classifier was
\* taken for inference.
C4_DiseaseModelResolution ==
    LET avail(k) == k \in DOMAIN models /\ models[k] # None
        own == model_type \o "_disease"
    IN  DiseaseInferDone =>
            /\ avail(own) => disease_model = models[own]
            /\ (~avail(own) /\ avail("random_forest_disease")) =>
                   disease_model = models["random_forest_disease"]
            /\ (~avail(own) /\ ~avail("random_forest_disease")) =>
                   /\ pc = "done"
                   /\ ~result.success
                   /\ result.message.text = "No disease classification model available"
                   /\ disease_model = Unbound

\* C5 as stated: on a random_forest or svm request the vector is built from
\* feature_names_in_ when the classifier has it, and in the canonical order,
\* with inference going on, when it has not.
C5_StdVectorCanonicalWithoutNames ==
    (model_type \in {"random_forest", "svm"} /\ DiseaseInferDone
        /\ disease_model # Unbound) =>
        /\ feature_names_in.has =>
               features_passed = VectorByNames(disease_features, feature_names_in.names)
        /\ ~feature_names_in.has =>
               /\ features_passed = VectorByNames(disease_features, CanonicalOrder)
               /\ failed_stage # "disease_infer"

\* C5 amended: on a random_forest or svm request the vector is built from
\* exactly the names of feature_names_in_, in that order, 0 for a name the
\* extractor does not produce; a classifier without feature_names_in_ is
\* never invoked and the call fails with "Model feature names not available".
C5_StdVectorByNamesOrFailure ==
    (model_type \in {"random_forest", "svm"} /\ DiseaseInferDone
        /\ disease_model # Unbound) =>
        /\ feature_names_in.has =>
               /\ features_passed = VectorByNames(disease_features, feature_names_in.names)
               /\ Len(features_passed) = Len(feature_names_in.names)
        /\ ~feature_names_in.has =>
               /\ features_passed = << >>
               /\ pc = "done"
               /\ ~result.success
               /\ result.message.text = "Model feature names not available"

C5_Witness ==
    /\ pc = "label_resolve"
    /\ model_type = "svm"
    /\ disease_model = svm_disease_path
    /\ feature_names_in.names = <<"symmetry_score", "mean_r", "leaf_age">>
    /\ features_passed = <<37, 1, 0>>

\* C6 as stated: on a knn request the vector passed to the disease
\* classifier is always in the canonical order.
C6_KnnVectorAlwaysCanonical ==
    (model_type = "knn" /\ features_passed # << >>) =>
        features_passed = VectorByNames(disease_features, CanonicalOrder)

\* C6 amended: on a knn request the vector passed to the disease classifier
\* is built from feature_names_in_ (that order, 0 for a missing name) when
\* the classifier has it, and in the canonical order only when it has not.
C6_KnnVectorByNamesElseCanonical ==
    (model_type = "knn" /\ features_passed # << >>) =>
        IF feature_names_in.has
        THEN features_passed = VectorByNames(disease_features, feature_names_in.names)
        ELSE features_passed = VectorByNames(disease_features, CanonicalOrder)

C6_Witness ==
    /\ pc = "label_resolve"
    /\ model_type = "knn"
    /\ disease_model = knn_disease_path
    /\ feature_names_in.names = <<"symmetry_score", "mean_r", "leaf_age">>
    /\ features_passed = <<37, 1, 0>>

\* C7: after label resolution the encoder in use is the one registered for
\* the backend when that one exists, else the random-forest one; with
\* neither the call has failed with "Label encoder not available" and no
\* absent encoder was taken for decoding.
C7_EncoderResolution ==
    LET avail(k) == k \in DOMAIN label_encoders /\ label_encoders[k] # None
    IN  LabelResolveDone =>
            /\ avail(model_type) => encoder = label_encoders[model_type]
            /\ (~avail(model_type) /\ avail("random_forest")) =>
                   encoder = label_encoders["random_forest"]
            /\ (~avail(model_type) /\ ~avail("random_forest")) =>
                   /\ pc = "done"
                   /\ ~result.success
                   /\ result.message.text = "Label encoder not available"
                   /\ encoder = Unbound

\* C8: a successful result has its confidence in [0,1], equal to the
\* probability the deciding classifier reported for the predicted class, or
\* to the default (0.95 healthy, 0.75 diseased) when it reported none; and no
\* call fails because the deciding classifier could not supply a probability.
C8_ConfidenceContract ==
    /\ (pc = "done" /\ result.success) =>
           /\ result.confidence \in 0..100
           /\ IF health_prediction = 0
              THEN result.confidence =
                      IF health_probs # << >> THEN health_probs[health_prediction + 1]
                      ELSE 95
              ELSE result.confidence =
                      IF disease_probs # << >> THEN disease_probs[disease_prediction + 1]
                      ELSE 75
    /\ failed_stage \notin {"health_proba", "disease_proba"}

C10_RegistryHoldsLoadedArtifacts ==
    pc # "new" =>
        /\ \A k \in DOMAIN models :
               models[k] \in ArtifactPaths /\ files[models[k]] = "ok"
        /\ \A k \in DOMAIN label_encoders :
               label_encoders[k] \in ArtifactPaths /\ files[label_encoders[k]] = "ok"

\* The artifact each registry key is loaded from.
ModelFileOf ==
    [k \in {"random_forest_health", "random_forest_disease", "svm_health",
            "svm_disease", "knn_health", "knn_disease"} |->
        CASE k = "random_forest_health" -> rf_health_path
          [] k = "random_forest_disease" -> rf_disease_path
          [] k = "svm_health" -> svm_health_path
          [] k = "svm_disease" -> svm_disease_path
          [] k = "knn_health" -> knn_health_path
          [] k = "knn_disease" -> knn_disease_path]

EncoderFileOf ==
    [k \in {"random_forest", "knn"} |->
        IF k = "random_forest" THEN rf_encoder_path ELSE knn_encoder_path]

\* C11: load_models returns (it never raises), and afterwards every artifact
\* whose file is present and loadable is registered under its key, whatever
\* other file is missing or failed to load.
C11_LoadableArtifactsRegistered ==
    pc # "new" =>
        /\ \A k \in DOMAIN ModelFileOf :
               files[ModelFileOf[k]] = "ok" =>
                   k \in DOMAIN models /\ models[k] = ModelFileOf[k]
        /\ \A k \in DOMAIN EncoderFileOf :
               files[EncoderFileOf[k]] = "ok" =>
                   k \in DOMAIN label_encoders
                   /\ label_encoders[k] = EncoderFileOf[k]

\* The two orders in which a call can execute its stages.
HealthyStages == <<"imread", "health_extract", "health_infer", "healthy_result">>

DiseasedStages ==
    <<"imread", "health_extract", "health_infer", "disease_extract",
      "disease_infer", "label_resolve", "diseased_result">>

IsPrefix(s, t) == Len(s) <= Len(t) /\ \A i \in 1..Len(s) : s[i] = t[i]

\* The stages executed so far are an initial part of one of the two orders
\* (so none ran twice or out of order), the stage the call is at is the next
\* one of that order, and a result exists exactly when the call has ended.
C13_StageOrder ==
    /\ IsPrefix(stages, HealthyStages) \/ IsPrefix(stages, DiseasedStages)
    /\ pc \in {"new", "idle"} => stages = << >> /\ result = NoResult
    /\ pc \notin {"new", "idle", "done"} =>
           /\ result = NoResult
           /\ \/ IsPrefix(Append(stages, pc), HealthyStages)
              \/ IsPrefix(Append(stages, pc), DiseasedStages)
    /\ pc = "done" => result # NoResult /\ stages # << >>

\* Once the call has its result no stage runs: the only step is the return.
C13_NoStageAfterResult ==
    pc = "done" => (pc' = "idle" /\ stages' = << >>)

\* C13: stages run only in the order image load, health extraction, health
\* inference, then the healthy result or disease extraction, disease
\* inference, label resolution, diseased result; none runs twice, none runs
\* after the result, and every call that is entered reaches its one result.
C13_SequentialStages ==
    /\ []C13_StageOrder
    /\ [][C13_NoStageAfterResult]_vars
    /\ (pc = "imread") ~> (pc = "done")

C13_Witness ==
    /\ pc = "done"
    /\ stages = DiseasedStages
    /\ result.success

\* C14 as stated: a successful diseased result carries the table record of
\* the decoded identifier itself (the healthy record when that identifier is
\* not a key of the table) and the prediction "Diseased Plant - " + name.
C14_InfoOfDecodedIdentifier ==
    (pc = "done" /\ result.success /\ health_prediction # 0) =>
        /\ result.disease_info =
               IF disease_name \in DOMAIN DISEASE_INFO
               THEN DISEASE_INFO[disease_name]
               ELSE DISEASE_INFO["healthy_basil"]
        /\ result.prediction = "Diseased Plant - " \o result.disease_info.name

\* C14 amended: the record is the one of the lower-cased identifier (the
\* healthy record when the lower-cased identifier is not a key of the table).
C14_InfoOfLowerCasedIdentifier ==
    (pc = "done" /\ result.success /\ health_prediction # 0) =>
        LET id == IF disease_name = "Gray_Mold" THEN "gray_mold" ELSE disease_name
        IN  /\ result.disease_info =
                   IF id \in DOMAIN DISEASE_INFO THEN DISEASE_INFO[id]
                   ELSE DISEASE_INFO["healthy_basil"]
            /\ result.prediction = "Diseased Plant - " \o result.disease_info.name

C14_Witness ==
    /\ pc = "done"
    /\ result.success
    /\ disease_name = "Gray_Mold"
    /\ result.prediction = "Diseased Plant - Gray Mold"
    /\ result.disease_info.severity = "severe"

\* The mean over the left half of |left - mirrored right|, each difference a
\* true integer in 0..255.
TrueSymmetry(gray) ==
    LET d == [y \in 1..ImgHeight |-> [x \in 1..HalfWidth |->
                 LET l == gray[y][x]
                     r == gray[y][ImgWidth + 1 - x]
                 IN  IF l >= r THEN l - r ELSE r - l]]
        m == Mean(d, HalfWidth)
    IN  [num |-> 255 * m.count - m.sum, den |-> 255 * m.count]

\* C15: the symmetry_score of extract_disease_features is 1 minus the mean
\* true absolute difference between the left half and the mirrored right
\* half of the grayscale image, divided by 255; 8-bit wraparound plays no
\* part.
C15_SymmetryWithoutWraparound ==
    disease_features # EmptyDict =>
        disease_features["symmetry_score"] = TrueSymmetry(Gray(image))

\* C16: extract_health_features returns 9 entries in the order contrast,
\* dissimilarity, homogeneity, energy, correlation, mean_R, mean_G, mean_B,
\* leaf_area; entries 6, 7, 8 are the means of the red, green and blue
\* channels of the blue-green-red image, the assignment that
\* extract_disease_features uses for mean_r, mean_g, mean_b.
C16_HealthColourMeansAreRGB ==
    health_features # << >> =>
        /\ Len(health_features) = 9
        /\ health_features[1] = [graycoprops |-> "contrast"]
        /\ health_features[2] = [graycoprops |-> "dissimilarity"]
        /\ health_features[3] = [graycoprops |-> "homogeneity"]
        /\ health_features[4] = [graycoprops |-> "energy"]
        /\ health_features[5] = [graycoprops |-> "correlation"]
        /\ health_features[9] = [contourArea |-> "largest"]
        /\ health_features[6] = Mean(Channel(image, 2), ImgWidth)
        /\ health_features[7] = Mean(Channel(image, 1), ImgWidth)
        /\ health_features[8] = Mean(Channel(image, 0), ImgWidth)
        /\ disease_features # EmptyDict =>
               /\ health_features[6] = disease_features["mean_r"]
               /\ health_features[7] = disease_features["mean_g"]
               /\ health_features[8] = disease_features["mean_b"]

\* r is a result of predict(path, mt) running alone on a predictor whose
\* registries are registered and encoders: the stages of lines 184-372 one
\* after the other, for some answers of the artifacts.
IsAloneResult(r, mt, path, registered, encoders) ==
    LET features == extract_disease_features(path)
        Diseased ==
            \/ r = ExceptHandler("extract_disease_features raised", 4)
            \/ \E meta \in FeatureNameOptions,
                  predicted \in PredictOutcomes(DiseaseClasses),
                  proba \in ProbaOutcomes(DiseaseProbVectors) :
                   LET o == DiseaseInferOutcome(mt, registered, features, meta,
                                                predicted, proba, 5)
                   IN  IF o.next = "done" THEN r = o.result
                       ELSE \E decoded \in DecodeOutcomes :
                           LET l == LabelResolveOutcome(mt, encoders, decoded, 6)
                           IN  IF l.next = "done" THEN r = l.result
                               ELSE IF IsString(l.name)
                               THEN r = DiseasedResultDict(l.name, o.confidence, 7)
                               ELSE r = ExceptHandler(
                                        "label has no attribute 'lower'", 7)
    IN  \/ path = UnreadablePath /\ r = ErrorResult(CouldNotLoadImage, 1)
        \/ /\ path # UnreadablePath
           /\ \/ r = ExceptHandler("extract_health_features raised", 2)
              \/ /\ (mt \o "_health") \notin DOMAIN registered
                 /\ r = ErrorResult(ModelNotAvailable(mt, registered), 3)
              \/ /\ (mt \o "_health") \in DOMAIN registered
                 /\ r = ExceptHandler("health predict raised", 3)
              \/ /\ (mt \o "_health") \in DOMAIN registered
                 /\ registered[mt \o "_health"] # None
                 /\ \E class \in HealthClasses :
                        IF BranchAfterHealth(class) = "healthy_result"
                        THEN \E hp \in ProbaOutcomes(HealthProbVectors) :
                                 r = HealthyResultDict(HealthConfidence(hp, class), 4)
                        ELSE Diseased

\* C12: after construction no predict() call, on any path and under any
\* interleaving of two calls, adds, removes or rebinds a key of the model
\* registry or of the encoder registry or changes the disease table, and the
\* result of every call is one that the same call produces when it runs
\* alone against the registries as load_models left them.
C12_SharedStateReadOnly ==
    LET loaded == LoadModels(files)
    IN  /\ models = loaded.models
        /\ label_encoders = loaded.label_encoders
        /\ disease_table = DISEASE_INFO
        /\ pc = "done" =>
               IsAloneResult(result, model_type, image_path,
                             loaded.models, loaded.label_encoders)

\* A call has finished with a diseased result while a call of another
\* backend, entered before, is between two of its stages.
C12_Witness ==
    /\ pc = "done"
    /\ result.success
    /\ stages = DiseasedStages
    /\ suspended[1].pc = "label_resolve"
    /\ suspended[1].model_type # model_type

====
